---- MODULE Spec2Model ----
(***************************************************************************)
(* ecs-svc-proxy: an HTTP front end that redirects a request to the ECS    *)
(* container whose name contains the routing key of the request.           *)
(*                                                                         *)
(* The model follows src/src/main.go.  Thread 0 is func main (the startup  *)
(* discovery pass, then ListenAndServe); threads 1..NumRequests are the    *)
(* goroutines net/http starts for the inbound requests, each running the   *)
(* closure registered with HandleFunc.  The closure captures the slice     *)
(* variable serviceDetails of main, which all handlers read and write      *)
(* without synchronisation.  A Go slice value is a multi-word header; it   *)
(* is modelled as the pair (ptr, len), stored one word at a time.          *)
(*                                                                         *)
(* Strings that are searched (container names, routing keys) are sequences *)
(* of characters; other strings are TLA+ strings.  Requests use method GET.*)
(***************************************************************************)
EXTENDS Integers, Sequences, FiniteSets, TLC

\* ---------------------------------------------------------------- bounds
NumRequests == 2        \* concurrent inbound requests

\* ------------------------------------------------------------- constants
StatusBadRequest == 400
StatusNotFound == 404
StatusTemporaryRedirect == 307
HeaderRoutingName == "X-Org-ID"

Main == 0
Handlers == 1..NumRequests
Threads == {Main} \cup Handlers

\* The routing header values the requests carry; << >> is the absent or
\* empty header (Header.Get returns "" for both).
Keys == { << >>, <<"a">>, <<"b", "a">> }

\* ------------------------------------------------ the orchestrator (ECS)
Services == {"s1", "s2"}
ServiceLists == { <<"s1">>, <<"s1", "s2">> }

TasksOf(service) == IF service = "s1" THEN <<"t1">> ELSE <<"t2">>

\* What DescribeTasks answers for one task: its containers, each with a
\* name and the private IPv4 addresses of its network interfaces.
TaskDetail(taskArn) ==
    IF taskArn = "t1"
    THEN << [Name |-> <<"b">>, NetworkInterfaces |-> <<"10.0.0.1">>] >>
    ELSE << [Name |-> <<"a">>, NetworkInterfaces |-> << >>],
            [Name |-> <<"a", "b">>, NetworkInterfaces |-> <<"10.0.0.2", "10.0.0.3">>] >>

ECSService(name, ip) == [Name |-> name, IP |-> ip]

\* ------------------------------------------------------- pure functions
\* strings.Index(s, substr): the offset of the first occurrence, or -1.
RECURSIVE Index(_, _, _)
Index(s, substr, i) ==
    IF i + Len(substr) > Len(s) THEN -1
    ELSE IF SubSeq(s, i + 1, i + Len(substr)) = substr THEN i
         ELSE Index(s, substr, i + 1)

\* strings.Contains(s, substr)
Contains(s, substr) == Index(s, substr, 0) >= 0

RECURSIVE getServiceDetailFrom(_, _, _)
getServiceDetailFrom(orgID, services, i) ==
    IF i > Len(services) THEN [ip |-> "", ok |-> FALSE]
    ELSE IF Contains(services[i].Name, orgID)
         THEN [ip |-> services[i].IP, ok |-> TRUE]
         ELSE getServiceDetailFrom(orgID, services, i + 1)

\* Alternative of getServiceDetail in which the last match wins.
RECURSIVE getServiceDetailLastFrom(_, _, _)
getServiceDetailLastFrom(orgID, services, i) ==
    IF i < 1 THEN [ip |-> "", ok |-> FALSE]
    ELSE IF Contains(services[i].Name, orgID)
         THEN [ip |-> services[i].IP, ok |-> TRUE]
         ELSE getServiceDetailLastFrom(orgID, services, i - 1)

getServiceDetailLast(orgID, services) ==
    getServiceDetailLastFrom(orgID, services, Len(services))

getServiceDetail(orgID, services) == getServiceDetailFrom(orgID, services, 1)

\* Alternative of appendNetworks that adds one entry per container.
appendNetworksFirstOnly(name, networks, i) ==
    IF Len(networks) = 0 THEN << >> ELSE <<[Name |-> name, IP |-> networks[1]]>>

\* The inner loops of getServiceDetails: one entry per network interface.
RECURSIVE appendNetworks(_, _, _)
appendNetworks(name, networks, i) ==
    IF i > Len(networks) THEN << >>
    ELSE <<ECSService(name, networks[i])>> \o appendNetworks(name, networks, i + 1)

RECURSIVE appendContainers(_, _)
appendContainers(containers, i) ==
    IF i > Len(containers) THEN << >>
    ELSE appendNetworks(containers[i].Name, containers[i].NetworkInterfaces, 1)
         \o appendContainers(containers, i + 1)

appendTask(taskArn) == appendContainers(TaskDetail(taskArn), 1)

\* ---------------------------------------------------------------- state
VARIABLES
    proc,            \* "starting", "serving" or "exited" (os.Exit / fatal signal)
    exitCause,       \* what ended the process: thread and call, [by, at]
    serviceDetails,  \* the captured slice variable of main: header [ptr, len]
    pc,              \* position of every thread
    orgID,           \* handler local: the routing key
    found,           \* handler locals serviceIP, ok: [ip, ok]
    services,        \* buildServiceDetails local
    tasks,           \* buildServiceDetails / listTasks local
    idx,             \* loop position in listTasks and getServiceDetails
    built,           \* getServiceDetails local serviceDetails
    resp,            \* the ResponseWriter of every request
    lookups,         \* history: number of getServiceDetail calls of a thread
    passes,          \* history: number of discovery passes a thread started
    refreshed,       \* history: number of passes of a handler that returned and were stored
    described,       \* history: tasks of the current pass described without error
    failedTasks,     \* history: tasks of the current pass whose describe failed
    calls,           \* history: the orchestrator calls of the current pass, [op, ok]
    inFlight,        \* history: handlers whose pass has not stored yet, in start order
    overtaken,       \* history: a pass that started later has stored its result
    trackOrder,      \* whether the start order of passes is recorded in inFlight
    env,             \* the process environment read by LoadConfig
    config           \* main local cfg

vars == << proc, exitCause, serviceDetails, pc, orgID, found, services, tasks,
           idx, built, resp, lookups, passes, refreshed, described,
           failedTasks, calls, inFlight, overtaken, trackOrder, env, config >>

locals == << services, tasks, idx, built >>
request == << orgID, found, resp, lookups >>
order == << inFlight, overtaken >>
fixed == << trackOrder, env, config >>
passHist == << described, failedTasks, refreshed, calls >>

NoResponse ==
    [status |-> 0, location |-> "", body |-> << >>, hadCT |-> FALSE, written |-> << >>]
EmptySlice == [ptr |-> << >>, len |-> 0]

\* The variables LoadConfig reads and the values they are given when set.
EnvValue == [ECS_CLUSTER |-> "c1", AWS_REGION |-> "eu-west-1"]
Envs == { [k \in D |-> EnvValue[k]] : D \in SUBSET DOMAIN EnvValue }
DefaultEnv == [k \in DOMAIN EnvValue |-> EnvValue[k]]

\* getEnv: a variable that is set wins.  Otherwise, when the default is empty
\* too, an error value is built and dropped, and the default is returned.
getEnv(e, key, defaultValue) ==
    IF key \in DOMAIN e THEN e[key] ELSE defaultValue

LoadConfig(e) ==
    [AWSRegion         |-> getEnv(e, "AWS_REGION", "us-west-2"),
     ECSCluster        |-> getEnv(e, "ECS_CLUSTER", ""),
     ProxyPort         |-> getEnv(e, "PROXY_PORT", "8080"),
     HeaderRoutingName |-> getEnv(e, "DEFAULT_ORG_ID", HeaderRoutingName)]

NoConfig == [AWSRegion |-> "", ECSCluster |-> "", ProxyPort |-> "",
             HeaderRoutingName |-> ""]

\* The state with main at position `at`.
InitAt(at) ==
    /\ proc = "starting"
    /\ exitCause = [by |-> -1, at |-> "none"]
    /\ serviceDetails = EmptySlice
    /\ pc = [t \in Threads |-> IF t = Main THEN at ELSE "idle"]
    /\ orgID = [t \in Handlers |-> << >>]
    /\ found = [t \in Handlers |-> [ip |-> "", ok |-> FALSE]]
    /\ services = [t \in Threads |-> << >>]
    /\ tasks = [t \in Threads |-> << >>]
    /\ idx = [t \in Threads |-> 1]
    /\ built = [t \in Threads |-> << >>]
    /\ resp = [t \in Handlers |-> NoResponse]
    /\ lookups = [t \in Handlers |-> 0]
    /\ passes = [t \in Threads |-> IF t = Main /\ at = "listServices" THEN 1 ELSE 0]
    /\ refreshed = [t \in Handlers |-> 0]
    /\ described = [t \in Threads |-> << >>]
    /\ failedTasks = [t \in Threads |-> {}]
    /\ calls = [t \in Threads |-> << >>]
    /\ inFlight = << >>
    /\ overtaken = [t \in Handlers |-> FALSE]

\* main has loaded its configuration from an environment that sets the
\* cluster, and enters the startup pass (line 30).
Init ==
    /\ InitAt("listServices")
    /\ env = DefaultEnv
    /\ config = LoadConfig(env)
    /\ trackOrder = FALSE

\* The same state, with the start order of the passes recorded.
InitOrder ==
    /\ InitAt("listServices")
    /\ env = DefaultEnv
    /\ config = LoadConfig(env)
    /\ trackOrder = TRUE

\* main before cfg := LoadConfig(), in any environment.
InitStartup ==
    /\ InitAt("loadConfig")
    /\ env \in Envs
    /\ config = NoConfig
    /\ trackOrder = FALSE

Running(t) == proc # "exited" /\ (t \in Handlers => proc = "serving")

Called(op, ok) == [op |-> op, ok |-> ok]
OrchestratorCalls == {"ListServices", "ListTasks", "DescribeTasks"}

\* The process ends (os.Exit or a fatal signal): every goroutine stops where
\* it is, and a response that its handler has not returned is never sent.
\* Requests answered before keep their response; serviceDetails is not
\* assigned.
ExitRest(t, at) ==
    LET gone(u) == pc[u] # "done" IN
    /\ proc' = "exited"
    /\ exitCause' = [by |-> t, at |-> at]
    /\ pc' = [u \in Threads |-> IF gone(u) THEN "dead" ELSE "done"]
    /\ services' = [u \in Threads |-> << >>]
    /\ tasks' = [u \in Threads |-> << >>]
    /\ idx' = [u \in Threads |-> 1]
    /\ built' = [u \in Threads |-> << >>]
    /\ described' = [u \in Threads |-> << >>]
    /\ failedTasks' = [u \in Threads |-> {}]
    /\ calls' = [u \in Threads |->
                    IF u = t /\ at \in OrchestratorCalls
                    THEN Append(calls[t], Called(at, FALSE)) ELSE << >>]
    /\ inFlight' = << >>
    /\ overtaken' = [u \in Handlers |-> FALSE]
    /\ UNCHANGED fixed
    /\ orgID' = [u \in Handlers |-> IF gone(u) THEN << >> ELSE orgID[u]]
    /\ found' = [u \in Handlers |-> IF gone(u) THEN [ip |-> "", ok |-> FALSE] ELSE found[u]]
    /\ resp' = [u \in Handlers |-> IF gone(u) THEN NoResponse ELSE resp[u]]
    /\ lookups' = [u \in Handlers |-> IF gone(u) THEN 0 ELSE lookups[u]]
    /\ passes' = [u \in Threads |-> IF gone(u) THEN 0 ELSE passes[u]]
    /\ refreshed' = [u \in Handlers |-> IF gone(u) THEN 0 ELSE refreshed[u]]

Exit(t, at) == ExitRest(t, at) /\ UNCHANGED serviceDetails

\* log.Fatalf(...): the message is logged, then os.Exit(1).
Fatalf(t, at) == Exit(t, at)

\* main, cfg := LoadConfig(): getEnv returns a value for every setting, so
\* main goes on to create the client and enter the startup pass.
LoadConfigStep ==
    /\ proc = "starting" /\ pc[Main] = "loadConfig"
    /\ config' = LoadConfig(env)
    /\ pc' = [pc EXCEPT ![Main] = "listServices"]
    /\ passes' = [passes EXCEPT ![Main] = 1]
    /\ UNCHANGED << proc, exitCause, serviceDetails, locals, request, order,
                    refreshed, described, failedTasks, calls, trackOrder, env >>

\* ------------------------------------------------------ discovery pass
\* buildServiceDetails, lines 83-95, run by main at startup and by every
\* handler whose first lookup misses.  Each orchestrator call is one step.

\* listServices returns the service ARNs.
ListServicesOk(t) ==
    /\ Running(t) /\ pc[t] = "listServices"
    /\ \E svcs \in ServiceLists :
          /\ services' = [services EXCEPT ![t] = svcs]
          /\ tasks' = [tasks EXCEPT ![t] = << >>]
          /\ idx' = [idx EXCEPT ![t] = 1]
    /\ pc' = [pc EXCEPT ![t] = "listTasks"]
    /\ calls' = [calls EXCEPT ![t] = <<Called("ListServices", TRUE)>>]
    /\ UNCHANGED << proc, exitCause, fixed, serviceDetails, built, request, order, passes,
                    described, failedTasks, refreshed >>

\* listServices returns an error: log.Fatalf.
ListServicesErr(t) ==
    /\ Running(t) /\ pc[t] = "listServices"
    /\ Fatalf(t, "ListServices")

\* One iteration of the loop of listTasks; after the last one
\* getServiceDetails starts with an empty result.
ListTasksOk(t) ==
    /\ Running(t) /\ pc[t] = "listTasks"
    /\ tasks' = [tasks EXCEPT ![t] = @ \o TasksOf(services[t][idx[t]])]
    /\ calls' = [calls EXCEPT ![t] = Append(@, Called("ListTasks", TRUE))]
    /\ IF idx[t] < Len(services[t])
       THEN /\ idx' = [idx EXCEPT ![t] = @ + 1]
            /\ UNCHANGED << pc, services, built, described, failedTasks, refreshed >>
       ELSE /\ idx' = [idx EXCEPT ![t] = 1]
            /\ pc' = [pc EXCEPT ![t] = "describe"]
            /\ services' = [services EXCEPT ![t] = << >>]
            /\ built' = [built EXCEPT ![t] = << >>]
            /\ described' = [described EXCEPT ![t] = << >>]
            /\ failedTasks' = [failedTasks EXCEPT ![t] = {}]
            /\ UNCHANGED refreshed
    /\ UNCHANGED << proc, exitCause, fixed, serviceDetails, request, order, passes >>

\* Alternative of ListTasksErr that logs the error and goes on with no tasks.
ListTasksErrContinue(t) ==
    /\ Running(t) /\ pc[t] = "listTasks"
    /\ calls' = [calls EXCEPT ![t] = Append(@, Called("ListTasks", FALSE))]
    /\ pc' = [pc EXCEPT ![t] = "store"]
    /\ services' = [services EXCEPT ![t] = << >>]
    /\ tasks' = [tasks EXCEPT ![t] = << >>]
    /\ idx' = [idx EXCEPT ![t] = 1]
    /\ built' = [built EXCEPT ![t] = << >>]
    /\ described' = [described EXCEPT ![t] = << >>]
    /\ failedTasks' = [failedTasks EXCEPT ![t] = {}]
    /\ UNCHANGED << proc, exitCause, fixed, serviceDetails, request, order, passes, refreshed >>

\* ListTasks returns an error for the current service: log.Fatalf.
ListTasksErr(t) ==
    /\ Running(t) /\ pc[t] = "listTasks"
    /\ Fatalf(t, "ListTasks")

\* The end of an iteration of the loop of getServiceDetails; after the last
\* task the function returns its result to the caller.
DescribeDone(t, result) ==
    /\ built' = [built EXCEPT ![t] = result]
    /\ IF idx[t] < Len(tasks[t])
       THEN /\ idx' = [idx EXCEPT ![t] = @ + 1]
            /\ UNCHANGED << pc, tasks >>
       ELSE /\ idx' = [idx EXCEPT ![t] = 1]
            /\ tasks' = [tasks EXCEPT ![t] = << >>]
            /\ pc' = [pc EXCEPT ![t] = "store"]

\* Alternative of DescribeTasksErr in which a describe failure is fatal.
DescribeTasksErrFatal(t) ==
    /\ Running(t) /\ pc[t] = "describe"
    /\ Fatalf(t, "DescribeTasks")

\* DescribeTasks succeeds for the current task: its (name, ip) pairs are appended.
DescribeTasksOk(t) ==
    /\ Running(t) /\ pc[t] = "describe"
    /\ described' = [described EXCEPT ![t] = Append(@, tasks[t][idx[t]])]
    /\ calls' = [calls EXCEPT ![t] = Append(@, Called("DescribeTasks", TRUE))]
    /\ DescribeDone(t, built[t] \o appendTask(tasks[t][idx[t]]))
    /\ UNCHANGED << proc, exitCause, fixed, serviceDetails, services, request, order, passes,
                    failedTasks, refreshed >>

\* DescribeTasks fails for the current task: logged, the task is skipped.
DescribeTasksErr(t) ==
    /\ Running(t) /\ pc[t] = "describe"
    /\ failedTasks' = [failedTasks EXCEPT ![t] = @ \cup {tasks[t][idx[t]]}]
    /\ calls' = [calls EXCEPT ![t] = Append(@, Called("DescribeTasks", FALSE))]
    /\ DescribeDone(t, built[t])
    /\ UNCHANGED << proc, exitCause, fixed, serviceDetails, services, request, order, passes,
                    described, refreshed >>

\* main, line 30: serviceDetails := buildServiceDetails(...), then the router
\* is set up and ListenAndServe accepts requests.  No handler runs yet.
StartServing ==
    /\ proc = "starting" /\ pc[Main] = "store"
    /\ serviceDetails' = [ptr |-> built[Main], len |-> Len(built[Main])]
    /\ built' = [built EXCEPT ![Main] = << >>]
    /\ proc' = "serving"
    /\ pc' = [pc EXCEPT ![Main] = "serve"]
    /\ described' = [described EXCEPT ![Main] = << >>]
    /\ failedTasks' = [failedTasks EXCEPT ![Main] = {}]
    /\ calls' = [calls EXCEPT ![Main] = << >>]
    /\ UNCHANGED << exitCause, fixed, services, tasks, idx, request, order, passes, refreshed >>

\* ------------------------------------------------------ response writer
\* Alternative of WriteHeader in which a later call replaces the status.
WriteHeaderLastWins(w, code, location) ==
    [w EXCEPT !.status = code, !.location = location, !.written = Append(@, code)]

\* ResponseWriter.WriteHeader: the first call fixes the status line and the
\* headers set so far; later calls are logged as superfluous and ignored.
\* written lists the codes of all calls the handler made.
WriteHeader(w, code, location) ==
    IF w.status = 0
    THEN [w EXCEPT !.status = code, !.location = location, !.written = Append(@, code)]
    ELSE [w EXCEPT !.written = Append(@, code)]

\* http.Error(w, msg, code): sets Content-Type, writes the header and msg.
httpError(w, msg, code) ==
    [WriteHeader(w, code, "") EXCEPT !.hadCT = TRUE, !.body = Append(@, msg)]

\* http.Redirect(w, r, url, code) for a GET request: sets Location (and
\* Content-Type, unless one is set), writes the header, and writes the short
\* HTML body only when no Content-Type had been set before.
httpRedirect(w, url, code) ==
    [WriteHeader(w, code, url) EXCEPT
        !.hadCT = TRUE,
        !.body = IF w.hadCT THEN @ ELSE Append(@, <<"<a href=", url, ">">>)]

\* fmt.Errorf("missing required header %s", config.HeaderRoutingName).Error()
MissingHeader == <<"missing required header ", HeaderRoutingName>>
NotFoundMsg == <<"Service not found for Org-ID">>

\* fmt.Sprintf("http://%s", serviceIP)
RedirectURL(serviceIP) == "http://" \o serviceIP

\* ------------------------------------------- reading the shared slice
\* Values an out-of-bounds element read may produce: the zero value of
\* ECSService, or whatever else lies behind the backing array.
Garbage == { ECSService(<< >>, ""), ECSService(<<"b", "a">>, "0.0.0.0") }

\* A slice header is consistent when its length fits its backing array.
InBounds(h) == h.len <= Len(h.ptr)

\* The element sequences a range over the slice header h can observe.  The
\* handlers race on the header, so ptr and len may stem from different
\* stores; elements past the backing array are arbitrary.
ReadViews(h) ==
    IF InBounds(h) THEN { SubSeq(h.ptr, 1, h.len) }
    ELSE { h.ptr \o [i \in 1..(h.len - Len(h.ptr)) |-> g] : g \in Garbage }

\* ------------------------------------------------------------- handler
\* The tail of the handler after a lookup that hit (line 52) or after the
\* second lookup missed (lines 46-48).
Respond(t, w, d) ==
    /\ resp' = [resp EXCEPT ![t] =
                  IF d.ok
                  THEN httpRedirect(w, RedirectURL(d.ip), StatusTemporaryRedirect)
                  ELSE httpError(w, NotFoundMsg, StatusNotFound)]
    /\ pc' = [pc EXCEPT ![t] = "done"]

\* Alternative of Request that answers NotFound on the first miss.
RequestNoRetry(t, key) ==
    /\ proc = "serving" /\ pc[t] = "idle"
    /\ \E view \in ReadViews(serviceDetails) :
          LET w == IF key = << >>
                   THEN httpError(resp[t], MissingHeader, StatusBadRequest)
                   ELSE resp[t]
              d == getServiceDetail(key, view)
          IN  /\ orgID' = [orgID EXCEPT ![t] = key]
              /\ lookups' = [lookups EXCEPT ![t] = 1]
              /\ found' = [found EXCEPT ![t] = d]
              /\ Respond(t, w, d)
              /\ UNCHANGED passes
    /\ UNCHANGED << proc, exitCause, fixed, serviceDetails, locals, passHist, order >>

\* Alternative of Request that refreshes on every request, hit or miss.
RequestAlwaysRefresh(t, key) ==
    /\ proc = "serving" /\ pc[t] = "idle"
    /\ \E view \in ReadViews(serviceDetails) :
          LET w == IF key = << >>
                   THEN httpError(resp[t], MissingHeader, StatusBadRequest)
                   ELSE resp[t]
              d == getServiceDetail(key, view)
          IN  /\ orgID' = [orgID EXCEPT ![t] = key]
              /\ lookups' = [lookups EXCEPT ![t] = 1]
              /\ found' = [found EXCEPT ![t] = d]
              /\ resp' = [resp EXCEPT ![t] = w]
              /\ pc' = [pc EXCEPT ![t] = "listServices"]
              /\ passes' = [passes EXCEPT ![t] = @ + 1]
    /\ inFlight' = IF trackOrder THEN Append(inFlight, t) ELSE inFlight
    /\ UNCHANGED << proc, exitCause, fixed, serviceDetails, locals, passHist, overtaken >>

\* Lines 35-42 and 52: a request arrives with routing header value key.  An
\* empty key is answered BadRequest and the handler goes on; the first
\* getServiceDetail reads the shared slice; a hit redirects, a miss enters
\* buildServiceDetails.
Request(t, key) ==
    /\ proc = "serving" /\ pc[t] = "idle"
    /\ \E view \in ReadViews(serviceDetails) :
          LET w == IF key = << >>
                   THEN httpError(resp[t], MissingHeader, StatusBadRequest)
                   ELSE resp[t]
              d == getServiceDetail(key, view)
          IN  /\ orgID' = [orgID EXCEPT ![t] = key]
              /\ lookups' = [lookups EXCEPT ![t] = 1]
              /\ found' = [found EXCEPT ![t] = d]
              /\ IF d.ok
                 THEN Respond(t, w, d) /\ UNCHANGED passes
                 ELSE /\ resp' = [resp EXCEPT ![t] = w]
                      /\ pc' = [pc EXCEPT ![t] = "listServices"]
                      /\ passes' = [passes EXCEPT ![t] = @ + 1]
    /\ inFlight' = IF trackOrder /\ pc'[t] = "listServices"
                   THEN Append(inFlight, t) ELSE inFlight
    /\ UNCHANGED << proc, exitCause, fixed, serviceDetails, locals, passHist, overtaken >>

\* Handler u entered buildServiceDetails before handler t did, and neither
\* has stored its result yet.
StartedBefore(u, t) ==
    \E i, j \in 1..Len(inFlight) : i < j /\ inFlight[i] = u /\ inFlight[j] = t

\* Line 44, the assignment serviceDetails = <result>: the header words are
\* stored one at a time, in an order the compiler chooses.
StoreNext(t, word) ==
    IF pc[t] = "store"
    THEN /\ pc' = [pc EXCEPT ![t] = IF word = "ptr" THEN "storeLen" ELSE "storePtr"]
         /\ described' = [described EXCEPT ![t] = << >>]
         /\ failedTasks' = [failedTasks EXCEPT ![t] = {}]
         /\ calls' = [calls EXCEPT ![t] = << >>]
         /\ inFlight' = SelectSeq(inFlight, LAMBDA u : u # t)
         /\ overtaken' = [u \in Handlers |->
                             overtaken[u] \/ StartedBefore(u, t)]
         /\ UNCHANGED << built, refreshed >>
    ELSE /\ pc' = [pc EXCEPT ![t] = "lookup2"]
         /\ built' = [built EXCEPT ![t] = << >>]
         /\ refreshed' = [refreshed EXCEPT ![t] = @ + 1]
         /\ overtaken' = [overtaken EXCEPT ![t] = FALSE]
         /\ UNCHANGED << described, failedTasks, calls, inFlight >>

StorePtr(t) ==
    /\ proc = "serving" /\ t \in Handlers /\ pc[t] \in {"store", "storePtr"}
    /\ serviceDetails' = [serviceDetails EXCEPT !.ptr = built[t]]
    /\ StoreNext(t, "ptr")
    /\ UNCHANGED << proc, exitCause, fixed, services, tasks, idx, request, passes >>

StoreLen(t) ==
    /\ proc = "serving" /\ t \in Handlers /\ pc[t] \in {"store", "storeLen"}
    /\ serviceDetails' = [serviceDetails EXCEPT !.len = Len(built[t])]
    /\ StoreNext(t, "len")
    /\ UNCHANGED << proc, exitCause, fixed, services, tasks, idx, request, passes >>

\* Alternative of Retry that starts another pass when the lookup misses again.
RetryAgain(t) ==
    /\ proc = "serving" /\ pc[t] = "lookup2"
    /\ \E view \in ReadViews(serviceDetails) :
          LET d == getServiceDetail(orgID[t], view)
          IN  /\ lookups' = [lookups EXCEPT ![t] = @ + 1]
              /\ found' = [found EXCEPT ![t] = d]
              /\ IF d.ok
                 THEN Respond(t, resp[t], d) /\ UNCHANGED passes
                 ELSE /\ resp' = resp
                      /\ pc' = [pc EXCEPT ![t] = "listServices"]
                      /\ passes' = [passes EXCEPT ![t] = @ + 1]
    /\ inFlight' = IF trackOrder /\ pc'[t] = "listServices"
                   THEN Append(inFlight, t) ELSE inFlight
    /\ UNCHANGED << proc, exitCause, fixed, serviceDetails, locals, orgID, passHist,
                    overtaken >>

\* Lines 45-52: the second getServiceDetail, then NotFound or the redirect.
Retry(t) ==
    /\ proc = "serving" /\ pc[t] = "lookup2"
    /\ \E view \in ReadViews(serviceDetails) :
          LET d == getServiceDetail(orgID[t], view)
          IN  /\ lookups' = [lookups EXCEPT ![t] = @ + 1]
              /\ found' = [found EXCEPT ![t] = d]
              /\ Respond(t, resp[t], d)
    /\ UNCHANGED << proc, exitCause, fixed, serviceDetails, locals, orgID, passes,
                    passHist, order >>

\* A getServiceDetail that ranges past the backing array may also hit
\* unmapped memory: the runtime ends the process with a fatal signal.
LookupFault(t) ==
    /\ proc = "serving" /\ pc[t] \in {"idle", "lookup2"}
    /\ ~InBounds(serviceDetails)
    /\ Exit(t, "SIGSEGV")

\* ------------------------------------------------------- specification
Pass(t) ==
    \/ ListServicesOk(t)
    \/ ListServicesErr(t)
    \/ ListTasksOk(t)
    \/ ListTasksErr(t)
    \/ DescribeTasksOk(t)
    \/ DescribeTasksErr(t)

Handle(t) ==
    \/ \E key \in Keys : Request(t, key)
    \/ StorePtr(t)
    \/ StoreLen(t)
    \/ Retry(t)
    \/ LookupFault(t)

Next ==
    \/ \E t \in Threads : Pass(t)
    \/ StartServing
    \/ \E t \in Handlers : Handle(t)

Spec == Init /\ [][Next]_vars

\* The program observed with the start order of its passes.
SpecOrder == InitOrder /\ [][Next]_vars

\* The program from the start of main.
NextStartup ==
    \/ LoadConfigStep
    \/ \E t \in Threads : Pass(t)
    \/ StartServing
    \/ \E t \in Handlers : Handle(t)

SpecStartup == InitStartup /\ [][NextStartup]_vars

TypeOK ==
    /\ proc \in {"starting", "serving", "exited"}
    /\ pc \in [Threads -> {"idle", "listServices", "listTasks", "describe", "store",
                           "storePtr", "storeLen", "lookup2", "serve", "done", "dead",
                           "loadConfig"}]
    /\ env \in Envs /\ config \in {NoConfig, LoadConfig(env)}
    /\ trackOrder \in BOOLEAN /\ overtaken \in [Handlers -> BOOLEAN]
    /\ inFlight \in Seq(Handlers) /\ Len(inFlight) <= NumRequests
    /\ orgID \in [Handlers -> Keys]
    /\ \A t \in Handlers : resp[t].status \in {0, 400, 404, 307}
    /\ serviceDetails.len \in 0..3

\* ------------------------------------------------------------ properties
Range(seq) == { seq[i] : i \in 1..Len(seq) }

AllTasks == UNION { Range(TasksOf(service)) : service \in Services }
ListCalls == {"ListServices", "ListTasks"}

RECURSIVE ListedTasks(_)
ListedTasks(svcs) ==
    IF svcs = << >> THEN << >> ELSE TasksOf(Head(svcs)) \o ListedTasks(Tail(svcs))

RECURSIVE FlattenDescribed(_, _)
FlattenDescribed(ts, okTasks) ==
    IF ts = << >> THEN << >>
    ELSE (IF Head(ts) \in okTasks THEN appendTask(Head(ts)) ELSE << >>)
         \o FlattenDescribed(Tail(ts), okTasks)

\* Every snapshot a discovery pass that runs to its end can return.
CompleteResults ==
    { FlattenDescribed(ListedTasks(svcs), okTasks) :
        svcs \in ServiceLists, okTasks \in SUBSET AllTasks }

\* No handler has assigned serviceDetails yet: every lookup so far scanned
\* the snapshot published at startup.
StartupSnapshotCurrent ==
    \A t \in Handlers : refreshed[t] = 0 /\ pc[t] \notin {"storePtr", "storeLen"}

Answered(t) == pc[t] = "done"

\* C1: requests that all missed on their first lookup against the same
\* published snapshot start exactly one discovery pass between them.
C1_SingleFlight ==
    StartupSnapshotCurrent => Cardinality({ t \in Handlers : passes[t] >= 1 }) <= 1

\* C2: when ListServices or ListTasks fails during a handler's refresh, the
\* published snapshot is unchanged and lookups go on being answered from it.
C2_FailedRefreshRetainsSnapshot ==
    [][ (exitCause.at = "none" /\ exitCause'.at \in ListCalls /\ exitCause'.by \in Handlers)
        => (serviceDetails' = serviceDetails /\ proc' = "serving") ]_vars

\* The declarative reading of Lookup: name contains key as a substring.
IsSubstring(name, key) ==
    \E i \in 0..Len(name) : \E j \in i..Len(name) : SubSeq(name, i + 1, j) = key

Matches(key, snapshot) == { i \in 1..Len(snapshot) : IsSubstring(snapshot[i].Name, key) }

\* C3: for every snapshot the handlers can scan and every key, the lookup
\* finds a match iff some instance name contains the key, and then returns
\* the ip of the first such instance in snapshot order.
C3_LookupFirstMatch ==
    \A key \in Keys : \A view \in ReadViews(serviceDetails) :
        LET d == getServiceDetail(key, view)
            m == Matches(key, view)
        IN  /\ d.ok <=> m # {}
            /\ d.ok => /\ d.ip = view[CHOOSE i \in m : \A j \in m : i <= j].IP
            /\ ~d.ok => d.ip = ""

\* A request for "a" was redirected to the first of two matching instances,
\* which is not the first instance of the snapshot.
C3_Witness ==
    /\ InBounds(serviceDetails) /\ serviceDetails.len = 3
    /\ Cardinality(Matches(<<"a">>, serviceDetails.ptr)) = 2
    /\ \E t \in Handlers :
          /\ Answered(t) /\ orgID[t] = <<"a">>
          /\ found[t] = [ip |-> "10.0.0.2", ok |-> TRUE]

BodyMentions(w, text) ==
    \E i \in 1..Len(w.body) : \E j \in 1..Len(w.body[i]) : w.body[i][j] = text

C5_RedirectsToPublishedInstance ==
    \A t \in Handlers :
        (Answered(t) /\ orgID[t] # << >> /\ found[t].ok)
            => /\ resp[t].status = StatusTemporaryRedirect
               /\ resp[t].location = RedirectURL(found[t].ip)
               /\ \E r \in CompleteResults : \E i \in 1..Len(r) :
                     r[i].IP = found[t].ip /\ IsSubstring(r[i].Name, orgID[t])

\* C6: a request with a key is answered 404 iff its first lookup missed, one
\* refresh was performed and stored, and the second lookup missed as well.
C6_NotFoundOnlyAfterRefresh ==
    \A t \in Handlers :
        (Answered(t) /\ orgID[t] # << >>)
            => /\ resp[t].status = StatusNotFound
                    <=> (lookups[t] = 2 /\ ~found[t].ok)
               /\ lookups[t] = 2 => (passes[t] = 1 /\ refreshed[t] = 1)
               /\ resp[t].status = StatusNotFound => resp[t].body = <<NotFoundMsg>>

C6_Witness ==
    \E t \in Handlers :
        Answered(t) /\ orgID[t] # << >> /\ resp[t].status = StatusNotFound

\* What getServiceDetails has returned holds every instance of the tasks
\* described without error and no instance of a task whose describe failed.
DescribedOnly(t) ==
    \A task \in AllTasks :
        /\ task \in Range(described[t]) => Range(appendTask(task)) \subseteq Range(built[t])
        /\ task \in failedTasks[t] => Range(appendTask(task)) \cap Range(built[t]) = {}

\* The step by which thread t leaves "store" writes its result to serviceDetails.
PublishesResult(t) ==
    (pc[t] = "store" /\ pc'[t] \notin {"store", "dead"})
        => \/ serviceDetails'.ptr = built[t]
           \/ serviceDetails'.len = Len(built[t])

\* C7: a DescribeTasks failure never ends the pass; the pass returns the
\* instances of every described task and of no failed one, and that result
\* is what the caller assigns to serviceDetails.
C7_DescribeFailureSkipsTask ==
    /\ [](exitCause.at # "DescribeTasks")
    /\ [](\A t \in Threads : pc[t] = "store" => DescribedOnly(t))
    /\ [][\A t \in Threads : PublishesResult(t)]_vars

\* A handler's pass returned after one task failed and another was described.
C7_Witness ==
    \E t \in Handlers :
        /\ pc[t] = "store" /\ failedTasks[t] # {} /\ described[t] # << >>
        /\ built[t] # << >>

C9_AtomicPublication ==
    /\ InBounds(serviceDetails)
    /\ \A view \in ReadViews(serviceDetails) : view \in CompleteResults

\* C10: a refresh that fails at ListServices or ListTasks does not take the
\* proxy down.
C10_DiscoveryErrorKeepsServing ==
    ~(proc = "exited" /\ exitCause.by \in Handlers /\ exitCause.at \in ListCalls)

\* Thread t is between the first and the last orchestrator call of a pass.
InDiscovery(t) == pc[t] \in {"listServices", "listTasks", "describe"}

\* C11: a request that misses while another request's refresh is in progress
\* waits for that refresh instead of starting a discovery pass of its own, so
\* at most one handler is inside a pass at any time.
C11_WaitsForInFlightRefresh ==
    Cardinality({ t \in Handlers : InDiscovery(t) }) <= 1

\* C13: every answered request got exactly one outcome: one status was
\* written, and nothing was written after it.
C13_ExactlyOneOutcome ==
    \A t \in Handlers :
        Answered(t) => (Len(resp[t].written) = 1 /\ Len(resp[t].body) <= 1)

\* C14: a request without a routing key performs no lookup and starts no
\* discovery pass.
C14_MissingHeaderSkipsDirectory ==
    \A t \in Handlers :
        (orgID[t] = << >> /\ resp[t].status = StatusBadRequest)
            => (lookups[t] = 0 /\ passes[t] = 0)

\* The handlers that may assign serviceDetails in the next step: their one
\* lookup missed and the pass it triggered has returned.
Refreshing(t) ==
    /\ pc[t] \in {"store", "storePtr", "storeLen"}
    /\ lookups[t] = 1 /\ ~found[t].ok /\ passes[t] = 1

\* C15: a request whose first lookup hits starts no discovery pass, and after
\* startup serviceDetails changes only in a step of a handler that is storing
\* the result of the pass its lookup miss triggered.
C15_DemandDrivenDiscovery ==
    /\ [](\A t \in Handlers :
            (lookups[t] = 1 /\ found[t].ok) => (passes[t] = 0 /\ Answered(t)))
    /\ [][ serviceDetails' # serviceDetails
            => \/ proc = "starting" /\ proc' = "serving"
               \/ \E t \in Handlers : Refreshing(t) /\ pc'[t] # pc[t]
                                      /\ \A u \in Handlers \ {t} : pc'[u] = pc[u] ]_vars

\* One request was redirected on its first lookup, without a pass, after
\* another request had refreshed the snapshot.
C15_Witness ==
    \E t, u \in Handlers :
        /\ Answered(t) /\ orgID[t] # << >> /\ lookups[t] = 1 /\ found[t].ok
        /\ passes[t] = 0 /\ refreshed[u] = 1

\* The (task, container, interface) positions of the described tasks ts.
Interfaces(ts) ==
    { p \in (1..Len(ts)) \X (1..2) \X (1..2) :
        /\ p[2] <= Len(TaskDetail(ts[p[1]]))
        /\ p[3] <= Len(TaskDetail(ts[p[1]])[p[2]].NetworkInterfaces) }

\* Task order, then container order, then interface order.
Precedes(p, q) ==
    \/ p[1] < q[1]
    \/ p[1] = q[1] /\ p[2] < q[2]
    \/ p[1] = q[1] /\ p[2] = q[2] /\ p[3] < q[3]

\* C17: what a pass has built is exactly one (container name, private IPv4)
\* pair per network interface of every container of every described task, in
\* task, container, interface order, and nothing else.
C17_SnapshotIsFlattenedInterfaces ==
    \A t \in Threads :
        pc[t] \in {"describe", "store"} =>
            LET P == Interfaces(described[t]) IN
            /\ Len(built[t]) = Cardinality(P)
            /\ \A p \in P :
                  LET c == TaskDetail(described[t][p[1]])[p[2]] IN
                  built[t][Cardinality({ q \in P : Precedes(q, p) }) + 1]
                      = [Name |-> c.Name, IP |-> c.NetworkInterfaces[p[3]]]

\* A pass returned three entries for two described tasks, one of which has a
\* container without a network interface and a container with two.
C17_Witness ==
    \E t \in Handlers :
        pc[t] = "store" /\ described[t] = <<"t1", "t2">> /\ Len(built[t]) = 3

\* The position of an orchestrator call in the pipeline of a pass.
Phase(op) == IF op = "ListServices" THEN 1 ELSE IF op = "ListTasks" THEN 2 ELSE 3

\* C18: the calls of one pass are ListServices, then ListTasks, then
\* DescribeTasks; no call follows a failed ListServices or ListTasks, and the
\* thread whose list call failed does not go on.
C18_CallOrder ==
    \A t \in Threads :
        LET c == calls[t] IN
        /\ \A i \in 1..Len(c) : (i = 1) <=> (c[i].op = "ListServices")
        /\ \A i, j \in 1..Len(c) :
              i < j => /\ Phase(c[i].op) <= Phase(c[j].op)
                       /\ c[i].op \in ListCalls => c[i].ok
        /\ pc[t] # "dead" => \A i \in 1..Len(c) : c[i].op \in ListCalls => c[i].ok

\* A handler's pass ended at its second ListTasks call, which failed, before
\* any DescribeTasks call.
C18_Witness ==
    \E t \in Handlers :
        /\ pc[t] = "dead" /\ Len(calls[t]) = 3
        /\ calls[t][3] = Called("ListTasks", FALSE)

\* C16: the published snapshot never goes backwards: no handler stores the
\* result of a pass that started before a pass whose result has already been
\* stored.
C16_SnapshotNeverGoesBack ==
    \A t \in Handlers : pc[t] \in {"storePtr", "storeLen"} => ~overtaken[t]

\* C12: when ECS_CLUSTER is unset (its default is empty), configuration
\* loading fails: main never gets past it to the startup pass or the listener.
C12_MissingSettingIsFatal ==
    "ECS_CLUSTER" \notin DOMAIN env =>
        /\ pc[Main] = "loadConfig"
        /\ proc = "starting"
        /\ passes[Main] = 0

====
